---- MODULE Spec2Model ----
(***************************************************************************)
(* The two asset converters of tools/: png_to_c.py (PNG -> LVGL C array)   *)
(* and c_to_bin.py (C array -> raw .bin).                                  *)
(*                                                                         *)
(* A text (file content, file name) is a sequence of one-character         *)
(* strings, so that the regular expressions of c_to_bin.py and the         *)
(* formatting of png_to_c.py are computed character by character.          *)
(***************************************************************************)
EXTENDS Integers, Sequences, FiniteSets, TLC

VARIABLES
  pc,             \* position of the running script
  img,            \* png_to_c: the decoded input image of one conversion
  var_name,       \* png_to_c: the var_name argument
  content,        \* text of the C file at hand (written by png_to_c / read by c_to_bin)
  src,            \* the declarations the C file at hand was laid out from
  parsed,         \* c_to_bin: outcome of parse_c_array on content
  dir,            \* c_to_bin: input directory, file name -> condition of the file
  c_files,        \* c_to_bin main: the sorted glob result
  idx,            \* c_to_bin main: number of loop iterations done
  success_count,  \* c_to_bin main: success_count
  results,        \* c_to_bin main: what convert_c_to_bin returned, per iteration
  outDir,         \* c_to_bin: whether the output directory exists
  bins,           \* c_to_bin: output directory, .bin file name -> bytes
  exit,           \* c_to_bin: exit status of main
  frames,         \* png_to_c __main__: condition of anim_frame_0..2.png
  attempted,      \* png_to_c __main__: frames the loop has reached
  written         \* png_to_c __main__: frame -> text of the .c file written

vars == <<pc, img, var_name, content, src, parsed, dir, c_files, idx, success_count,
          results, outDir, bins, exit, frames, attempted, written>>

None == "none"

-----------------------------------------------------------------------------
(* Characters and character classes                                        *)

Lower == {"a","b","c","d","e","f","g","h","i","j","k","l","m",
          "n","o","p","q","r","s","t","u","v","w","x","y","z"}
Upper == {"A","B","C","D","E","F","G","H","I","J","K","L","M",
          "N","O","P","Q","R","S","T","U","V","W","X","Y","Z"}
Digits == {"0","1","2","3","4","5","6","7","8","9"}

\* \s of the re module on the characters used here
IsSpace(c) == c \in {" ", "\t", "\n", "\r", "\f"}
\* \w
IsWord(c) == c \in Lower \cup Upper \cup Digits \cup {"_"}
\* [0-9a-fA-F]
IsHex(c) == c \in Digits \cup {"a","b","c","d","e","f","A","B","C","D","E","F"}
\* [^}]
IsNotBrace(c) == c # "}"

InClass(c, cls) ==
  CASE cls = "space" -> IsSpace(c)
    [] cls = "word" -> IsWord(c)
    [] cls = "notbrace" -> IsNotBrace(c)

HexDigits == <<"0", "1", "2", "3", "4", "5", "6", "7", "8", "9", "a", "b", "c", "d", "e", "f">>
HexUpper == <<"0", "1", "2", "3", "4", "5", "6", "7", "8", "9", "A", "B", "C", "D", "E", "F">>

\* int(val, 16) of one digit
HexVal(c) == (CHOOSE k \in 1..16 : HexDigits[k] = c \/ HexUpper[k] = c) - 1

\* the text has the literal lit at position i
LitAt(t, i, lit) ==
  /\ i >= 1
  /\ i + Len(lit) - 1 <= Len(t)
  /\ \A k \in 1..Len(lit) : t[i + k - 1] = lit[k]

\* end (exclusive) of the longest run of characters of class cls from position i
RECURSIVE RunEnd(_, _, _)
RunEnd(t, i, cls) ==
  IF i <= Len(t) /\ InClass(t[i], cls) THEN RunEnd(t, i + 1, cls) ELSE i

-----------------------------------------------------------------------------
(* c_to_bin.py: parse_c_array                                              *)

kw_static == <<"s", "t", "a", "t", "i", "c">>
kw_const == <<"c", "o", "n", "s", "t">>
kw_attr == <<"L", "V", "_", "A", "T", "T", "R", "I", "B", "U", "T", "E", "_", "M", "E", "M",
      "_", "A", "L", "I", "G", "N">>
kw_uint == <<"u", "i", "n", "t">>
kw_t == <<"_", "t">>
kw_map == <<"_", "m", "a", "p">>
kw_brackets == <<"[", "]">>

\* After (?:LV_ATTRIBUTE_MEM_ALIGN\s+)? tried at position p
AfterAttr(t, p) ==
  IF LitAt(t, p, kw_attr) /\ RunEnd(t, p + Len(kw_attr), "space") > p + Len(kw_attr)
  THEN RunEnd(t, p + Len(kw_attr), "space")
  ELSE p

\* AfterBits mutated: uint8_t only
AfterBits_uint8_only(t, p) == IF LitAt(t, p, <<"8">>) THEN p + 1 ELSE 0

\* After (?:8|16) tried at position p, 0 when neither alternative is there
AfterBits(t, p) ==
  IF LitAt(t, p, <<"8">>) THEN p + 1
  ELSE IF LitAt(t, p, <<"1", "6">>) THEN p + 2
  ELSE 0

\* After \w+_map\[\] (suffix) or \w+\[\] tried at position p, 0 when it is not there
AfterName(t, p, suffix) ==
  LET e == RunEnd(t, p, "word") IN
  IF /\ e > p
     /\ LitAt(t, e, kw_brackets)
     /\ (suffix => e - p > Len(kw_map) /\ LitAt(t, e - Len(kw_map), kw_map))
  THEN e + Len(kw_brackets)
  ELSE 0

\* After \s*=\s*\{ tried at position p, 0 when it is not there
AfterAssign(t, p) ==
  LET a == RunEnd(t, p, "space") IN
  IF LitAt(t, a, <<"=">>)
  THEN LET b == RunEnd(t, a + 1, "space") IN
       IF LitAt(t, b, <<"{">>) THEN b + 1 ELSE 0
  ELSE 0

\* array_pattern matched at position i of the text: the span of group 1,
\* or <<0, 0>> when the pattern does not match there.
\* suffix = TRUE: the first pattern (\w+_map), FALSE: the alternative one (\w+)
array_pattern(t, i, suffix) ==
  LET p1 == i + Len(kw_static)
      p2 == RunEnd(t, p1, "space")
      p3 == p2 + Len(kw_const)
      p4 == RunEnd(t, p3, "space")
      p5 == AfterAttr(t, p4)
      p6 == p5 + Len(kw_uint)
      p7 == AfterBits(t, p6)
      p8 == p7 + Len(kw_t)
      p9 == RunEnd(t, p8, "space")
      p10 == AfterName(t, p9, suffix)
      p11 == AfterAssign(t, p10)
      p12 == RunEnd(t, p11, "notbrace")
  IN
  IF /\ LitAt(t, i, kw_static)
     /\ p2 > p1
     /\ LitAt(t, p2, kw_const)
     /\ p4 > p3
     /\ LitAt(t, p5, kw_uint)
     /\ p7 > 0
     /\ LitAt(t, p7, kw_t)
     /\ p9 > p8
     /\ p10 > 0
     /\ p11 > 0
     /\ p12 > p11
     /\ LitAt(t, p12, <<"}">>)
  THEN <<p11, p12 - 1>>
  ELSE <<0, 0>>

\* the least element of a set of positions, 0 for the empty set
Leftmost(S) == IF S = {} THEN 0 ELSE CHOOSE i \in S : \A j \in S : i <= j

\* the match object of a match starting at position first (0: no match)
match_at(t, first, suffix) ==
  IF first = 0 THEN [found |-> FALSE, group1 |-> <<>>]
  ELSE [found |-> TRUE,
        group1 |-> SubSeq(t, array_pattern(t, first, suffix)[1],
                          array_pattern(t, first, suffix)[2])]

\* re.search(array_pattern, content, re.DOTALL): the leftmost match
re_search(t, suffix) ==
  match_at(t, Leftmost({i \in 1..Len(t) : t[i] = "s" /\ array_pattern(t, i, suffix)[1] > 0}),
           suffix)

\* re_findall mutated: lower case digits only, 0x([0-9a-f]{2})
RECURSIVE re_findall_lower_case(_, _)
re_findall_lower_case(s, i) ==
  IF i + 3 > Len(s) THEN <<>>
  ELSE IF s[i] = "0" /\ s[i + 1] = "x" /\ IsHex(s[i + 2]) /\ IsHex(s[i + 3])
          /\ s[i + 2] \notin Upper /\ s[i + 3] \notin Upper
       THEN <<16 * HexVal(s[i + 2]) + HexVal(s[i + 3])>> \o re_findall_lower_case(s, i + 4)
       ELSE re_findall_lower_case(s, i + 1)

\* re.findall(r'0x([0-9a-fA-F]{2})', array_str) from position i, each match
\* converted by int(val, 16)
RECURSIVE re_findall(_, _)
re_findall(s, i) ==
  IF i + 3 > Len(s) THEN <<>>
  ELSE IF s[i] = "0" /\ s[i + 1] = "x" /\ IsHex(s[i + 2]) /\ IsHex(s[i + 3])
       THEN <<16 * HexVal(s[i + 2]) + HexVal(s[i + 3])>> \o re_findall(s, i + 4)
       ELSE re_findall(s, i + 1)

ErrNoArray == "Could not find pixel data array in"
ErrNoHex == "Could not parse hex values from array in"

Raised(msg, path) == [ok |-> FALSE, pixel_data |-> <<>>, error |-> msg, file |-> path]
Returned(data) == [ok |-> TRUE, pixel_data |-> data, error |-> None, file |-> <<>>]
NoResult == [ok |-> FALSE, pixel_data |-> <<>>, error |-> None, file |-> <<>>]

\* bytes([int(val, 16) for val in hex_values]), or the ValueError for none
pixel_bytes(c_file_path, hex_values) ==
  IF hex_values = <<>> THEN Raised(ErrNoHex, c_file_path) ELSE Returned(hex_values)

\* what parse_c_array does with the match it settled on
parse_match(c_file_path, match) ==
  IF ~match.found THEN Raised(ErrNoArray, c_file_path)
  ELSE pixel_bytes(c_file_path, re_findall(match.group1, 1))

\* if not match: the alternative pattern without the _map suffix
second_search(match, text) == IF match.found THEN match ELSE re_search(text, FALSE)

\* parse_c_array mutated: only the alternative (any identifier) pattern is searched
parse_c_array_any_first(c_file_path, text) ==
  parse_match(c_file_path, re_search(text, FALSE))

\* parse_c_array(c_file_path) on a file holding text
parse_c_array(c_file_path, text) ==
  parse_match(c_file_path, second_search(re_search(text, TRUE), text))

-----------------------------------------------------------------------------
(* C files handed to parse_c_array: one or more array declarations laid    *)
(* out as text.                                                            *)

MaxTokens == 3
MaxDecls == 2

ByteVals == {1, 255}

name_frame1_map == <<"f", "r", "a", "m", "e", "1", "_", "m", "a", "p">>
name_frame1 == <<"f", "r", "a", "m", "e", "1">>
name_map == <<"_", "m", "a", "p">>
Names == {name_frame1_map, name_frame1, name_map}

\* How the initializer is laid out: the text before the first token, between
\* two tokens and after the last one, whether hex digits are upper case, and
\* the white space between the words of the declaration
Layouts ==
  { [before |-> <<" ">>, between |-> <<",",
      " ">>, after |-> <<" ">>, upper |-> FALSE, gap |-> <<" ">>],
    [before |-> <<"\n", " ", " ">>, between |-> <<",", "\n", " ",
      " ">>, after |-> <<"\n">>, upper |-> FALSE,
     gap |-> <<" ">>],
    [before |-> <<>>, between |-> <<",">>, after |-> <<>>, upper |-> TRUE, gap |-> <<"\t">>],
    [before |-> <<" ", "/", "*", " ", "p", "x", " ", "1", "2", " ", "*", "/",
      " ">>, between |-> <<" ", ",", " ", "/", "/", " ", "0", "x", "\n",
      "\t">>, after |-> <<",", "\n">>,
     upper |-> FALSE, gap |-> <<"\n", " ", " ">>],
    [before |-> <<"\t">>, between |-> <<>>, after |-> <<" ">>, upper |-> TRUE, gap |-> <<" ",
      " ">>] }

PlainLayout == CHOOSE l \in Layouts : l.before = <<" ">>

RECURSIVE SeqsUpTo(_, _)
SeqsUpTo(S, n) ==
  IF n = 0 THEN {<<>>}
  ELSE LET shorter == SeqsUpTo(S, n - 1) IN
       shorter \cup {Append(s, x) : s \in {q \in shorter : Len(q) = n - 1}, x \in S}
\* the token sequences of the initializers: all short ones, and 01 02 ff
TokenSeqs == SeqsUpTo(ByteVals, MaxTokens) \cup {<<1, 2, 255>>}

\* f'0x{v:02x}' (png_to_c.py), or the same in upper case
HexToken(v, upper) ==
  LET D == IF upper THEN HexUpper ELSE HexDigits IN
  <<"0", "x", D[(v \div 16) + 1], D[(v % 16) + 1]>>

RECURSIVE JoinTokens(_, _, _, _)
JoinTokens(toks, k, sep, upper) ==
  IF k > Len(toks) THEN <<>>
  ELSE HexToken(toks[k], upper)
       \o (IF k < Len(toks) THEN sep ELSE <<>>)
       \o JoinTokens(toks, k + 1, sep, upper)

Body(d) ==
  IF d.toks = <<>> THEN d.lay.before \o d.lay.after
  ELSE d.lay.before \o JoinTokens(d.toks, 1, d.lay.between, d.lay.upper) \o d.lay.after

RenderDecl(d) ==
  (IF d.static THEN kw_static \o d.lay.gap ELSE <<>>)
  \o kw_const \o d.lay.gap
  \o (IF d.attr THEN kw_attr \o d.lay.gap ELSE <<>>)
  \o kw_uint \o d.bits \o kw_t \o d.lay.gap
  \o d.name \o kw_brackets \o <<" ", "=", " ", "{">> \o Body(d) \o <<"}", ";", "\n">>

RECURSIVE RenderDecls(_, _)
RenderDecls(ds, k) ==
  IF k > Len(ds) THEN <<>> ELSE RenderDecl(ds[k]) \o RenderDecls(ds, k + 1)

RenderFile(ds) == <<"#", "i", "n", "c", "l", "u", "d", "e", " ", "\"", "l", "v", "g", "l",
      ".", "h", "\"", "\n", "\n">> \o RenderDecls(ds, 1)

\* Files holding one declaration, in every layout
SingleDecls ==
  [static : BOOLEAN, attr : BOOLEAN, bits : {<<"8">>, <<"1", "6">>, <<"3", "2">>},
   name : Names, lay : Layouts, toks : TokenSeqs]

\* Declaration k of a file holding several: its one byte is k
DeclKinds(k) ==
  { [static |-> st, attr |-> FALSE, bits |-> <<"8">>, name |-> n, lay |-> PlainLayout,
     toks |-> <<k>>] : st \in BOOLEAN, n \in Names }
  \cup
  { [static |-> TRUE, attr |-> FALSE, bits |-> <<"8">>, name |-> name_frame1_map,
     lay |-> l, toks |-> <<>>] : l \in {PlainLayout, CHOOSE l \in Layouts : l.before = <<>> /\ l.after = <<>>} }

RECURSIVE DeclLists(_)
DeclLists(n) ==
  IF n = 0 THEN {<<>>}
  ELSE {Append(ds, d) : ds \in DeclLists(n - 1), d \in DeclKinds(n)}

MultiDecls == UNION {DeclLists(n) : n \in 2..MaxDecls}

SourceFiles == {<<d>> : d \in SingleDecls} \cup MultiDecls

c_path == <<"f", "r", "a", "m", "e", "1", ".", "c">>

-----------------------------------------------------------------------------
(* Specification SpecParse: parse_c_array applied to a C file              *)

\* no batch is running
IdleBatches ==
  /\ dir = None /\ c_files = <<>> /\ idx = 0 /\ success_count = 0 /\ results = <<>>
  /\ outDir = FALSE /\ bins = None /\ exit = None
  /\ frames = None /\ attempted = {} /\ written = None

InitParse ==
  /\ pc = "parse"
  /\ src \in SourceFiles
  /\ content = RenderFile(src)
  /\ parsed = NoResult
  /\ img = None /\ var_name = <<>>
  /\ IdleBatches

ParseCArray ==
  /\ pc = "parse"
  /\ parsed' = parse_c_array(c_path, content)
  /\ pc' = "parsed"
  /\ UNCHANGED <<img, var_name, content, src, dir, c_files, idx, success_count, results,
                 outDir, bins, exit, frames, attempted, written>>

NextParse == ParseCArray

SpecParse == InitParse /\ [][NextParse]_vars

-----------------------------------------------------------------------------
(* Claims about parse_c_array (specification SpecParse)                    *)

\* The declaration has the shape both patterns ask for, the identifier aside
Qualifying(d) == d.static /\ d.bits \in {<<"8">>, <<"1", "6">>} /\ Body(d) # <<>>

\* The identifier ends in _map
EndsInMap(n) == Len(n) >= Len(kw_map) /\ LitAt(n, Len(n) - Len(kw_map) + 1, kw_map)
\* The identifier is one or more word characters followed by _map
StemAndMap(n) == Len(n) > Len(kw_map) /\ LitAt(n, Len(n) - Len(kw_map) + 1, kw_map)

FirstOf(S) == CHOOSE k \in S : \A j \in S : k <= j

\* What parsing the initializer of declaration d gives
FromDecl(d) == IF d.toks = <<>> THEN Raised(ErrNoHex, c_path) ELSE Returned(d.toks)

PolicyOutcome(ds, HasSuffix(_)) ==
  LET Q == {k \in 1..Len(ds) : Qualifying(ds[k])}
      M == {k \in Q : HasSuffix(ds[k].name)}
  IN
  IF M # {} THEN FromDecl(ds[FirstOf(M)])
  ELSE IF Q # {} THEN FromDecl(ds[FirstOf(Q)])
  ELSE Raised(ErrNoArray, c_path)

\* C6, as stated: the first qualifying declaration whose identifier ends in
\* _map is the one parsed; failing any, the first qualifying declaration;
\* failing that too, the extraction error naming the file, and no bytes.
C6_FirstMapWins_AnySuffix == pc = "parsed" => parsed = PolicyOutcome(src, EndsInMap)

\* C6, amended: the same with "identifier ends in _map" read as "identifier is
\* at least one word character followed by _map"; the bare identifier _map
\* is matched by the second pattern only.
C6_FirstMapWins == pc = "parsed" => parsed = PolicyOutcome(src, StemAndMap)

\* A file whose first declaration qualifies without the suffix and whose
\* second one carries it: the second one's byte is returned.
C6_Witness ==
  /\ pc = "parsed"
  /\ Len(src) = 2
  /\ Qualifying(src[1]) /\ src[1].name = name_frame1
  /\ Qualifying(src[2]) /\ src[2].name = name_frame1_map
  /\ parsed = Returned(<<2>>)

ExampleDecl == <<"s", "t", "a", "t", "i", "c", " ", "c", "o", "n", "s", "t", " ", "u", "i",
      "n", "t", "8", "_", "t", " ", "f", "r", "a", "m", "e", "1", "_", "m", "a", "p", "[",
      "]", " ", "=", " ", "{", " ", "0", "x", "0", "1", ",", " ", "0", "x", "0", "2", ",",
      " ", "0", "x", "f", "f", " ", "}", ";">>

Contains(t, lit) == \E i \in 1..Len(t) : LitAt(t, i, lit)

\* C7: the bytes returned for a matched initializer are its 0xNN tokens, one
\* byte per token, in textual order, whatever lies between the tokens; with
\* no token in it the parse error naming the file is raised; the example
\* declaration gives 01 02 ff.
C7_TokensInOrder ==
  /\ pc = "parsed" /\ Len(src) = 1 /\ Qualifying(src[1]) =>
       IF src[1].toks = <<>>
       THEN ~parsed.ok /\ parsed.error = ErrNoHex /\ parsed.file = c_path
            /\ parsed.pixel_data = <<>>
       ELSE /\ parsed.ok
            /\ Len(parsed.pixel_data) = Len(src[1].toks)
            /\ \A k \in 1..Len(src[1].toks) : parsed.pixel_data[k] = src[1].toks[k]
  /\ pc = "parsed" /\ Len(src) = 1 /\ Contains(content, ExampleDecl) =>
       parsed.ok /\ parsed.pixel_data = <<1, 2, 255>>

C7_Witness ==
  /\ pc = "parsed" /\ Len(src) = 1
  /\ Contains(content, ExampleDecl)
  /\ parsed.pixel_data = <<1, 2, 255>>

\* Layouts of the initializer that differ in white space only
WsLayouts ==
  { [before |-> b, between |-> <<",">> \o m, after |-> a, upper |-> FALSE, gap |-> <<" ">>] :
      b \in {<<>>, <<"\n", " ", " ">>}, m \in {<<>>, <<" ">>, <<"\n",
      "\t">>}, a \in {<<>>, <<" ", "\n">>} }

Variations(d) ==
  { [d EXCEPT !.lay = l, !.attr = a, !.bits = b] :
      l \in WsLayouts, a \in BOOLEAN, b \in {<<"8">>, <<"1", "6">>} }

\* C8: a qualifying declaration parses to the same bytes however the white
\* space in its initializer is laid out, with or without
\* LV_ATTRIBUTE_MEM_ALIGN, as uint8_t or as uint16_t.
C8_LayoutInsensitive ==
  pc = "parsed" /\ Len(src) = 1 /\ Qualifying(src[1]) /\ src[1].toks # <<>>
    /\ src[1].lay = PlainLayout =>
      /\ parsed.ok
      /\ \A v \in Variations(src[1]) :
           LET r == parse_c_array(c_path, RenderFile(<<v>>)) IN
           r.ok /\ r.pixel_data = parsed.pixel_data

C8_Witness ==
  /\ pc = "parsed" /\ Len(src) = 1 /\ Qualifying(src[1])
  /\ src[1].lay = PlainLayout /\ ~src[1].attr /\ src[1].bits = <<"8">>
  /\ src[1].toks = <<1, 2, 255>>
  /\ parsed = Returned(<<1, 2, 255>>)
  /\ \E v \in Variations(src[1]) :
       /\ v.attr /\ v.bits = <<"1", "6">> /\ v.lay.before = <<"\n", " ", " ">>
       /\ parse_c_array(c_path, RenderFile(<<v>>)) = parsed

-----------------------------------------------------------------------------
(* png_to_c.py: convert_png_to_c                                           *)

RECURSIVE BitOr(_, _)
BitOr(a, b) ==
  IF a = 0 THEN b
  ELSE IF b = 0 THEN a
  ELSE (IF a % 2 = 1 \/ b % 2 = 1 THEN 1 ELSE 0) + 2 * BitOr(a \div 2, b \div 2)

RECURSIVE BitAnd(_, _)
BitAnd(a, b) ==
  IF a = 0 \/ b = 0 THEN 0
  ELSE (IF a % 2 = 1 /\ b % 2 = 1 THEN 1 ELSE 0) + 2 * BitAnd(a \div 2, b \div 2)

RECURSIVE Pow2(_)
Pow2(k) == IF k = 0 THEN 1 ELSE 2 * Pow2(k - 1)

Shr(a, k) == a \div Pow2(k)
Shl(a, k) == a * Pow2(k)

\* img.getpixel((x, y)) of the image converted to RGB
getpixel(image, x, y) == image.px[y + 1][x + 1]

\* the RGB565 value of pixel p = <<r, g, b>>
rgb565(p) ==
  LET r5 == BitAnd(Shr(p[1], 3), 31)
      g6 == BitAnd(Shr(p[2], 2), 63)
      b5 == BitAnd(Shr(p[3], 3), 31)
  IN BitOr(BitOr(Shl(r5, 11), Shl(g6, 5)), b5)

\* the two tokens appended for one pixel, high byte first
pixel_tokens_big_endian(p) ==
  << HexToken(BitAnd(Shr(rgb565(p), 8), 255), FALSE),
     HexToken(BitAnd(rgb565(p), 255), FALSE) >>

\* the two tokens appended for one pixel: little endian
pixel_tokens(p) ==
  << HexToken(BitAnd(rgb565(p), 255), FALSE),
     HexToken(BitAnd(Shr(rgb565(p), 8), 255), FALSE) >>

\* for x in range(width), from x on, in row y
RECURSIVE row_tokens(_, _, _)
row_tokens(image, y, x) ==
  IF x >= image.w THEN <<>>
  ELSE pixel_tokens(getpixel(image, x, y)) \o row_tokens(image, y, x + 1)

\* for y in range(height), from y on: the list pixel_data
RECURSIVE pixel_data_from(_, _)
pixel_data_from(image, y) ==
  IF y >= image.h THEN <<>>
  ELSE row_tokens(image, y, 0) \o pixel_data_from(image, y + 1)

\* ', '.join(row) from element k of the row on
RECURSIVE join_row(_, _)
join_row(row, k) ==
  IF k > Len(row) THEN <<>>
  ELSE row[k] \o (IF k < Len(row) THEN <<",", " ">> ELSE <<>>) \o join_row(row, k + 1)

RowLen == 16

\* for i in range(0, len(pixel_data), 16), from i on
RECURSIVE write_rows(_, _)
write_rows(pixel_data, i) ==
  IF i >= Len(pixel_data) THEN <<>>
  ELSE LET last == IF i + RowLen < Len(pixel_data) THEN i + RowLen ELSE Len(pixel_data)
           row == SubSeq(pixel_data, i + 1, last)
       IN <<" ", " ">> \o join_row(row, 1)
          \o (IF i + RowLen < Len(pixel_data) THEN <<",", "\n">> ELSE <<"\n">>)
          \o write_rows(pixel_data, i + RowLen)

\* str(n) of a natural number
RECURSIVE DecStr(_)
DecStr(n) ==
  IF n < 10 THEN <<HexDigits[n + 1]>> ELSE DecStr(n \div 10) \o <<HexDigits[(n % 10) + 1]>>

\* the image descriptor, with data_size counted in pixels
write_descriptor_pixels(name, width, height, n) ==
  <<"c", "o", "n", "s", "t", " ", "l", "v", "_", "i", "m", "g", "_", "d", "s", "c", "_", "t",
      " ">> \o name \o <<" ", "=", " ", "{", "\n">>
  \o <<" ", " ", ".", "h", "e", "a", "d", "e", "r", ".", "a", "l", "w", "a", "y", "s", "_",
      "z", "e", "r", "o", " ", "=", " ", "0", ",", "\n">>
  \o <<" ", " ", ".", "h", "e", "a", "d", "e", "r", ".", "w", " ", "=",
      " ">> \o DecStr(width) \o <<",", "\n">>
  \o <<" ", " ", ".", "h", "e", "a", "d", "e", "r", ".", "h", " ", "=",
      " ">> \o DecStr(height) \o <<",", "\n">>
  \o <<" ", " ", ".", "d", "a", "t", "a", "_", "s", "i", "z", "e", " ", "=",
      " ">> \o DecStr(width * height) \o <<",", "\n">>
  \o <<" ", " ", ".", "h", "e", "a", "d", "e", "r", ".", "c", "f", " ", "=", " ", "L", "V",
      "_", "I", "M", "G", "_", "C", "F", "_", "T", "R", "U", "E", "_", "C", "O", "L", "O",
      "R", ",", "\n">>
  \o <<" ", " ", ".", "d", "a", "t", "a", " ", "=", " ">> \o name \o <<"_", "m", "a", "p",
      ",", "\n">>
  \o <<"}", ";", "\n">>

\* the image descriptor; n is len(pixel_data)
write_descriptor(name, width, height, n) ==
  <<"c", "o", "n", "s", "t", " ", "l", "v", "_", "i", "m", "g", "_", "d", "s", "c", "_", "t",
      " ">> \o name \o <<" ", "=", " ", "{", "\n">>
  \o <<" ", " ", ".", "h", "e", "a", "d", "e", "r", ".", "a", "l", "w", "a", "y", "s", "_",
      "z", "e", "r", "o", " ", "=", " ", "0", ",", "\n">>
  \o <<" ", " ", ".", "h", "e", "a", "d", "e", "r", ".", "w", " ", "=",
      " ">> \o DecStr(width) \o <<",", "\n">>
  \o <<" ", " ", ".", "h", "e", "a", "d", "e", "r", ".", "h", " ", "=",
      " ">> \o DecStr(height) \o <<",", "\n">>
  \o <<" ", " ", ".", "d", "a", "t", "a", "_", "s", "i", "z", "e", " ", "=",
      " ">> \o DecStr(n) \o <<",", "\n">>
  \o <<" ", " ", ".", "h", "e", "a", "d", "e", "r", ".", "c", "f", " ", "=", " ", "L", "V",
      "_", "I", "M", "G", "_", "C", "F", "_", "T", "R", "U", "E", "_", "C", "O", "L", "O",
      "R", ",", "\n">>
  \o <<" ", " ", ".", "d", "a", "t", "a", " ", "=", " ">> \o name \o <<"_", "m", "a", "p",
      ",", "\n">>
  \o <<"}", ";", "\n">>

write_header ==
  <<"#", "i", "n", "c", "l", "u", "d", "e", " ", "\"", "l", "v", "g", "l", ".", "h", "\"",
      "\n", "\n", "#", "i", "f", "n", "d", "e", "f", " ", "L", "V", "_", "A", "T", "T", "R",
      "I", "B", "U", "T", "E", "_", "M", "E", "M", "_", "A", "L", "I", "G", "N", "\n", "#",
      "d", "e", "f", "i", "n", "e", " ", "L", "V", "_", "A", "T", "T", "R", "I", "B", "U",
      "T", "E", "_", "M", "E", "M", "_", "A", "L", "I", "G", "N", "\n", "#", "e", "n", "d",
      "i", "f", "\n", "\n">>

\* everything written to output_path, given the list pixel_data
write_file(name, width, height, pixel_data) ==
  write_header
  \o <<"c", "o", "n", "s", "t", " ", "L", "V", "_", "A", "T", "T", "R", "I", "B", "U", "T",
      "E", "_", "M", "E", "M", "_", "A", "L", "I", "G", "N", " ", "u", "i", "n", "t", "8",
      "_", "t", " ">> \o name \o <<"_", "m", "a", "p", "[", "]", " ", "=", " ", "{", "\n">>
  \o write_rows(pixel_data, 0)
  \o <<"}", ";", "\n", "\n">>
  \o write_descriptor(name, width, height, Len(pixel_data))

\* the text convert_png_to_c writes to output_path for the decoded image
convert_png_to_c(image, name) ==
  write_file(name, image.w, image.h, pixel_data_from(image, 0))

-----------------------------------------------------------------------------
(* Images handed to convert_png_to_c                                       *)

\* Images of up to SmallPixels pixels take every colour of Channels^3; images
\* of up to MaxPixels pixels are one colour of Palette with at most one pixel
\* of the other.
SmallPixels == 1
MaxPixels == 9

Channels == {7, 132, 255}
Colours == Channels \X Channels \X Channels
Red == <<255, 0, 0>>
Green == <<0, 255, 0>>

Shapes(n) == {wh \in (1..n) \X (1..n) : wh[1] * wh[2] <= n}

SmallImages ==
  UNION { { [w |-> wh[1], h |-> wh[2], px |-> px] : px \in [1..wh[2] -> [1..wh[1] -> Colours]] }
          : wh \in Shapes(SmallPixels) }

Uniform(w, h, c) == [y \in 1..h |-> [x \in 1..w |-> c]]
OddAt(w, h, c, d, ox, oy) ==
  [y \in 1..h |-> [x \in 1..w |-> IF x = ox /\ y = oy THEN d ELSE c]]

LargeImages ==
  UNION { { [w |-> wh[1], h |-> wh[2], px |-> Uniform(wh[1], wh[2], Red)] }
          \cup { [w |-> wh[1], h |-> wh[2], px |-> OddAt(wh[1], wh[2], cd[1], cd[2], ox, oy)] :
                   cd \in {<<Red, Green>>, <<Green, Red>>}, ox \in 1..wh[1], oy \in 1..wh[2] }
          : wh \in Shapes(MaxPixels) }

Images == SmallImages \cup LargeImages

\* the 2x1 image (255,0,0), (0,255,0)
ExampleImage == [w |-> 2, h |-> 1, px |-> <<(<<Red, Green>>)>>]

anim_frame(i) == <<"a", "n", "i", "m", "_", "f", "r", "a", "m", "e", "_">> \o DecStr(i)
VarNames == {anim_frame(i) : i \in 0..2}

-----------------------------------------------------------------------------
(* Specification SpecEncode: one image converted by convert_png_to_c, and  *)
(* the file it wrote handed to parse_c_array                               *)

InitEncode ==
  /\ pc = "convert"
  /\ img \in Images
  /\ var_name \in VarNames
  /\ content = <<>>
  /\ src = <<>>
  /\ parsed = NoResult
  /\ IdleBatches

ConvertPngToC ==
  /\ pc = "convert"
  /\ content' = convert_png_to_c(img, var_name)
  /\ pc' = "converted"
  /\ UNCHANGED <<img, var_name, src, parsed, dir, c_files, idx, success_count, results,
                 outDir, bins, exit, frames, attempted, written>>

ParseEncoded ==
  /\ pc = "converted"
  /\ parsed' = parse_c_array(var_name \o <<".", "c">>, content)
  /\ pc' = "decoded"
  /\ UNCHANGED <<img, var_name, content, src, dir, c_files, idx, success_count, results,
                 outDir, bins, exit, frames, attempted, written>>

NextEncode == ConvertPngToC \/ ParseEncoded

SpecEncode == InitEncode /\ [][NextEncode]_vars

-----------------------------------------------------------------------------
(* Claims about convert_png_to_c (specification SpecEncode)                *)

\* position of the first occurrence of lit in t, 0 when there is none
FindLit(t, lit) ==
  LET S == {i \in 1..Len(t) : LitAt(t, i, lit)} IN IF S = {} THEN 0 ELSE FirstOf(S)

\* the text between the brace that opens the _map array and the next closing brace
Initializer(t) ==
  LET open == <<"_", "m", "a", "p", "[", "]", " ", "=", " ", "{">>
      a == FindLit(t, open) + Len(open)
  IN SubSeq(t, a, RunEnd(t, a, "notbrace") - 1)

\* the values of the 0xNN tokens of the array initializer, in textual order
EmittedTokens(t) == re_findall(Initializer(t), 1)

RECURSIVE DecValAt(_, _, _)
DecValAt(t, i, acc) ==
  IF i <= Len(t) /\ t[i] \in Digits
  THEN DecValAt(t, i + 1, 10 * acc + HexVal(t[i]))
  ELSE acc

\* the number written after ".data_size = " in the descriptor
DataSizeField(t) ==
  LET field == <<" ", " ", ".", "d", "a", "t", "a", "_", "s", "i", "z", "e", " ", "=",
      " ">> IN DecValAt(t, FindLit(t, field) + Len(field), 0)

\* ((R>>3)<<11) | ((G>>2)<<5) | (B>>3) by arithmetic on the channel values
Packed(p) == (p[1] \div 8) * 2048 + (p[2] \div 4) * 32 + (p[3] \div 8)

\* the packed pixel stream of the image: row-major, low byte then high byte
PixelStream(image) ==
  [k \in 1..(2 * image.w * image.h) |->
     LET n == (k - 1) \div 2
         p == image.px[(n \div image.w) + 1][(n % image.w) + 1]
     IN IF k % 2 = 1 THEN Packed(p) % 256 ELSE Packed(p) \div 256]

Converted == pc \in {"converted", "decoded"}

ExampleTokens == <<"{", "\n", " ", " ", "0", "x", "0", "0", ",", " ", "0", "x", "f", "8", ",",
      " ", "0", "x", "e", "0", ",", " ", "0", "x", "0", "7", "\n", "}">>

\* C4: every pixel gives two tokens, the low byte then the high byte of
\* ((R>>3)<<11) | ((G>>2)<<5) | (B>>3), pixels in row-major order; the 2x1
\* image (255,0,0),(0,255,0) gives 0x00, 0xf8, 0xe0, 0x07.
C4_PixelTokens ==
  Converted =>
    /\ EmittedTokens(content) = PixelStream(img)
    /\ (img = ExampleImage => Contains(content, ExampleTokens))

C4_Witness ==
  /\ pc = "converted" /\ img = ExampleImage
  /\ EmittedTokens(content) = <<0, 248, 224, 7>>

\* C5: the number of tokens in the initializer and the data_size field of
\* the descriptor are both 2 * W * H.
C5_ByteCount ==
  Converted =>
    /\ Len(EmittedTokens(content)) = 2 * img.w * img.h
    /\ DataSizeField(content) = 2 * img.w * img.h

\* an image whose tokens take more than one line of 16
C5_Witness ==
  /\ pc = "converted" /\ img.w = 3 /\ img.h = 3
  /\ Len(EmittedTokens(content)) = 18 /\ DataSizeField(content) = 18

\* C1: the text the encoder writes holds exactly one declaration the
\* decoder's patterns match, and parse_c_array on it returns the image's
\* packed pixel stream.
C1_EncoderOutputDecodes ==
  pc = "decoded" =>
    /\ Cardinality({i \in 1..Len(content) : array_pattern(content, i, FALSE)[1] > 0}) = 1
    /\ parsed.ok
    /\ parsed.pixel_data = PixelStream(img)

-----------------------------------------------------------------------------
(* c_to_bin.py: convert_c_to_bin and main                                  *)

\* the characters of file names, in code point order
CharOrder == <<".", "0", "1", "2", "3", "4", "5", "6", "7", "8", "9", "_", "a", "b", "c", "d",
      "e", "f", "g", "h", "i", "j", "k", "l", "m", "n", "o", "p", "q", "r", "s", "t", "u",
      "v", "w", "x", "y", "z">>
Code(c) == CHOOSE k \in 1..Len(CharOrder) : CharOrder[k] = c

\* a < b as Python compares two strings
RECURSIVE LexLess(_, _)
LexLess(a, b) ==
  IF a = <<>> THEN b # <<>>
  ELSE IF b = <<>> THEN FALSE
  ELSE IF Head(a) = Head(b) THEN LexLess(Tail(a), Tail(b))
  ELSE Code(Head(a)) < Code(Head(b))

\* sorted(...) mutated: descending order
RECURSIVE sorted_descending(_)
sorted_descending(S) ==
  IF S = {} THEN <<>>
  ELSE LET hi == CHOOSE a \in S : \A b \in S \ {a} : LexLess(b, a)
       IN <<hi>> \o sorted_descending(S \ {hi})

\* sorted(...) of a set of names
RECURSIVE sorted(_)
sorted(S) ==
  IF S = {} THEN <<>>
  ELSE LET lo == CHOOSE a \in S : \A b \in S \ {a} : LexLess(a, b)
       IN <<lo>> \o sorted(S \ {lo})

\* the name matches frame*.c
glob_frame_c(name) ==
  /\ Len(name) >= Len(<<"f", "r", "a", "m", "e">>) + Len(<<".", "c">>)
  /\ LitAt(name, 1, <<"f", "r", "a", "m", "e">>)
  /\ LitAt(name, Len(name) - 1, <<".", "c">>)

\* Path.stem: the name without its last suffix
stem(name) ==
  LET dots == {i \in 2..(Len(name) - 1) : name[i] = "."} IN
  IF dots = {} THEN name
  ELSE SubSeq(name, 1, (CHOOSE i \in dots : \A j \in dots : j <= i) - 1)

bin_filename(name) == stem(name) \o <<".", "b", "i", "n">>

\* the frame files the input directory may hold
FrameNames == << <<"f", "r", "a", "m", "e", "2", ".", "c">>, <<"f", "r", "a", "m", "e", "1",
      "0", ".", "c">>, <<"f", "r", "a", "m", "e", "1", ".", "c">>, <<"f", "r", "a", "m", "e",
      ".", "c">>, <<"f", "r", "a", "m", "e", "_", "b", ".", "c">> >>
\* a number that tells the files apart, as the first byte of their arrays
FileNumber(name) ==
  IF \E k \in 1..Len(FrameNames) : FrameNames[k] = name
  THEN CHOOSE k \in 1..Len(FrameNames) : FrameNames[k] = name
  ELSE 0
FileBytes(name) == <<FileNumber(name), 2, 255>>

Outcome(ret, why, od, bs) == [ret |-> ret, why |-> why, outDir |-> od, bins |-> bs]

\* lines 62-74 of convert_c_to_bin: the output side after parse_c_array
\* returned r; cut is how many bytes reach the file when the write fails
write_bin(name, cond, od, bs, cut, r) ==
  IF ~od /\ cond.fault = "mkdir" THEN Outcome(FALSE, "OSError", od, bs)
  ELSE IF cond.fault = "open" THEN Outcome(FALSE, "OSError", TRUE, bs)
  ELSE IF cond.fault = "write"
    THEN Outcome(FALSE, "OSError", TRUE,
                 [bs EXCEPT ![bin_filename(name)] =
                    [exists |-> TRUE, data |-> SubSeq(r.pixel_data, 1, cut)]])
  ELSE Outcome(TRUE, None, TRUE,
               [bs EXCEPT ![bin_filename(name)] = [exists |-> TRUE, data |-> r.pixel_data]])

\* the except branch for an exception of parse_c_array, else the output side
after_parse(name, cond, od, bs, cut, r) ==
  IF ~r.ok THEN Outcome(FALSE, r.error, od, bs)
  ELSE write_bin(name, cond, od, bs, cut, r)

\* convert_c_to_bin mutated: the output directory is created before parsing
convert_c_to_bin_mkdir_first(name, cond, od, bs, cut) ==
  IF cond.vanished THEN Outcome(FALSE, "File not found", od, bs)
  ELSE IF ~od /\ cond.fault = "mkdir" THEN Outcome(FALSE, "OSError", od, bs)
  ELSE IF cond.fault = "read" THEN Outcome(FALSE, "OSError", TRUE, bs)
  ELSE after_parse(name, cond, TRUE, bs, cut, parse_c_array(name, cond.content))

\* convert_c_to_bin(c_file_path, output_dir) on the input file `name` in
\* condition cond (its content, whether it is gone by now, the step at which
\* the operating system fails), with output directory state od (exists) and
\* bs (its .bin files). Gives what is returned, the message printed and the
\* output side after.
convert_c_to_bin(name, cond, od, bs, cut) ==
  IF cond.vanished THEN Outcome(FALSE, "File not found", od, bs)
  ELSE IF cond.fault = "read" THEN Outcome(FALSE, "OSError", od, bs)
  ELSE after_parse(name, cond, od, bs, cut, parse_c_array(name, cond.content))

\* main's return value mutated: 0 as soon as one file converted
exit_status_any(count, total) == IF count > 0 THEN 0 ELSE 1

\* return 0 if success_count == len(c_files) else 1
exit_status(count, total) == IF count = total THEN 0 ELSE 1

-----------------------------------------------------------------------------
(* Input and output directories of c_to_bin.py                             *)

MaxFiles == 3

Candidates == {FrameNames[k] : k \in 1..MaxFiles}
\* files of the input directory that frame*.c does not match
OtherNames == {<<"a", "n", "i", "m", "_", "f", "r", "a", "m", "e", "_", "0", ".",
      "c">>, <<"f", "r", "a", "m", "e", "1", ".", "h">>}

\* The text of input file `name`: a file with a qualifying array of its own
\* bytes, the file png_to_c writes for the name, or a file whose array holds
\* no token
ValidText(name) ==
  RenderFile(<< [static |-> TRUE, attr |-> FALSE, bits |-> <<"8">>,
                 name |-> stem(name) \o kw_map, lay |-> PlainLayout,
                 toks |-> FileBytes(name)] >>)
EncodedText(name) == convert_png_to_c(ExampleImage, stem(name))
EmptyArrayText(name) ==
  RenderFile(<< [static |-> TRUE, attr |-> FALSE, bits |-> <<"8">>,
                 name |-> stem(name) \o kw_map, lay |-> PlainLayout, toks |-> <<>>] >>)

\* kind: what the file holds; vanished: the file is gone when convert_c_to_bin
\* looks for it; fault: the step of convert_c_to_bin at which the operating
\* system fails
Conditions ==
  { [kind |-> "valid", vanished |-> FALSE, fault |-> f] :
      f \in {"none", "read", "mkdir", "open", "write"} }
  \cup { [kind |-> t, vanished |-> FALSE, fault |-> "none"] : t \in {"noarray", "nohex"} }
  \cup { [kind |-> "valid", vanished |-> TRUE, fault |-> "none"] }

Healthy == [kind |-> "valid", vanished |-> FALSE, fault |-> "none"]

FileOf(name, c) ==
  [kind |-> c.kind, vanished |-> c.vanished, fault |-> c.fault,
   content |-> CASE c.kind = "valid" -> ValidText(name)
                 [] c.kind = "noarray" -> EncodedText(name)
                 [] c.kind = "nohex" -> EmptyArrayText(name)]

Directories ==
  UNION { { [n \in D \cup OtherNames |-> FileOf(n, IF n \in D THEN c[n] ELSE Healthy)] :
              c \in [D -> Conditions] } : D \in SUBSET Candidates }

OldBytes == <<9, 9>>
BinNames == {bin_filename(n) : n \in Candidates}
NoBins == [b \in BinNames |-> [exists |-> FALSE, data |-> <<>>]]
OldBins == [b \in BinNames |-> [exists |-> TRUE, data |-> OldBytes]]

-----------------------------------------------------------------------------
(* Specification SpecDecBatch: one run of main() of c_to_bin.py            *)

InitDecBatch ==
  /\ pc = "start"
  /\ dir \in Directories
  /\ \/ outDir = FALSE /\ bins = NoBins
     \/ outDir = TRUE /\ bins = OldBins
  /\ c_files = <<>> /\ idx = 0 /\ success_count = 0 /\ results = <<>>
  /\ exit = None
  /\ img = None /\ var_name = <<>> /\ content = <<>> /\ src = <<>> /\ parsed = NoResult
  /\ frames = None /\ attempted = {} /\ written = None

\* c_files = sorted(input_dir.glob('frame*.c')); return 1 when there is none
Discover ==
  /\ pc = "start"
  /\ c_files' = sorted({n \in DOMAIN dir : glob_frame_c(n)})
  /\ IF c_files' = <<>>
     THEN pc' = "done" /\ exit' = 1
     ELSE pc' = "loop" /\ exit' = exit
  /\ UNCHANGED <<img, var_name, content, src, parsed, dir, idx, success_count, results,
                 outDir, bins, frames, attempted, written>>

\* one iteration of: for c_file in c_files
ConvertNext ==
  /\ pc = "loop"
  /\ idx < Len(c_files)
  /\ \E c_file \in {c_files[idx + 1]} :
       \E cut \in (IF dir[c_file].fault = "write" THEN 0..(Len(FileBytes(c_file)) - 1)
                   ELSE {0}) :
         \E o \in {convert_c_to_bin(c_file, dir[c_file], outDir, bins, cut)} :
           /\ outDir' = o.outDir
           /\ bins' = o.bins
           /\ results' = Append(results, [file |-> c_file, ok |-> o.ret, why |-> o.why])
           /\ success_count' = IF o.ret THEN success_count + 1 ELSE success_count
  /\ idx' = idx + 1
  /\ UNCHANGED <<pc, img, var_name, content, src, parsed, dir, c_files, exit,
                 frames, attempted, written>>

\* after the loop: the tally and the return value
Finish ==
  /\ pc = "loop"
  /\ idx = Len(c_files)
  /\ exit' = exit_status(success_count, Len(c_files))
  /\ pc' = "done"
  /\ UNCHANGED <<img, var_name, content, src, parsed, dir, c_files, idx, success_count,
                 results, outDir, bins, frames, attempted, written>>

NextDecBatch == Discover \/ ConvertNext \/ Finish

SpecDecBatch == InitDecBatch /\ [][NextDecBatch]_vars

-----------------------------------------------------------------------------
(* Claims about main() and convert_c_to_bin (specification SpecDecBatch)   *)

\* the frame*.c files of the input directory
Discovered == {n \in DOMAIN dir : glob_frame_c(n)}

\* the file is there, parses, and nothing fails while it is read or written
IsHealthy(f) == f.kind = "valid" /\ ~f.vanished /\ f.fault = "none"

\* C2: main returns 0 exactly when at least one frame*.c file was discovered
\* and convert_c_to_bin succeeded for each of them, and 1 otherwise.
C2_ExitStatus ==
  pc = "done" =>
    /\ exit \in {0, 1}
    /\ exit = 0 <=>
         /\ Discovered # {}
         /\ \A n \in Discovered : \E k \in 1..Len(results) : results[k].file = n /\ results[k].ok

C2_Witness ==
  /\ pc = "done" /\ exit = 0
  /\ Cardinality(Discovered) >= 2
  /\ \A k \in 1..Len(results) : results[k].ok

\* C3: every discovered file is attempted once, in lexicographic order,
\* whatever fails on the way; every healthy file has its .bin written with
\* its bytes; success_count is the number of conversions that succeeded; a
\* run of three files of which one fails to parse ends 2/3 with status 1.
C3_FailuresContained ==
  pc = "done" =>
    /\ Len(results) = Len(c_files)
    /\ \A k \in 1..Len(c_files) : results[k].file = c_files[k]
    /\ {c_files[k] : k \in 1..Len(c_files)} = Discovered
    /\ \A j \in 1..Len(c_files) : \A k \in 1..Len(c_files) :
         j < k => LexLess(c_files[j], c_files[k])
    /\ \A n \in Discovered :
         IsHealthy(dir[n]) =>
           /\ bins[bin_filename(n)] = [exists |-> TRUE, data |-> FileBytes(n)]
           /\ \E k \in 1..Len(results) : results[k].file = n /\ results[k].ok
    /\ success_count = Cardinality({k \in 1..Len(results) : results[k].ok})
    /\ (/\ Cardinality(Discovered) = 3
        /\ Cardinality({n \in Discovered : IsHealthy(dir[n])}) = 2
        /\ \E n \in Discovered : dir[n].kind \in {"noarray", "nohex"})
       => success_count = 2 /\ Len(c_files) = 3 /\ exit = 1

C3_Witness ==
  /\ pc = "done"
  /\ c_files = << <<"f", "r", "a", "m", "e", "1", ".", "c">>, <<"f", "r", "a", "m", "e", "1",
      "0", ".", "c">>, <<"f", "r", "a", "m", "e", "2", ".", "c">> >>
  /\ dir[c_files[1]].kind = "noarray"
  /\ IsHealthy(dir[c_files[2]]) /\ IsHealthy(dir[c_files[3]])
  /\ ~results[1].ok /\ results[2].ok /\ results[3].ok
  /\ success_count = 2 /\ exit = 1
  /\ bins[bin_filename(c_files[2])].data = FileBytes(c_files[2])
  /\ bins[bin_filename(c_files[3])].data = FileBytes(c_files[3])

\* the conversion of the file fails before the output side is touched:
\* the file is missing, holds no qualifying array, or holds no hex token
FailsBeforeOutput(f) == f.vanished \/ (f.fault # "read" /\ f.kind \in {"noarray", "nohex"})

\* C10: a conversion that fails because the file is missing, has no
\* qualifying array or has no hex token returns False and leaves the output
\* directory and every .bin file as they were.
C10_NoOutputOnParseFailure ==
  [][ (pc = "loop" /\ idx' = idx + 1 /\ FailsBeforeOutput(dir[c_files[idx + 1]]))
        => (~results'[idx'].ok /\ outDir' = outDir /\ bins' = bins) ]_vars

\* a file without a qualifying array was attempted and the old .bin of its
\* name is still there
C10_Witness ==
  /\ pc = "loop" /\ idx >= 1
  /\ ~results[idx].ok /\ results[idx].why = ErrNoArray
  /\ bins[bin_filename(results[idx].file)] = [exists |-> TRUE, data |-> OldBytes]

-----------------------------------------------------------------------------
(* Specification SpecEncBatch: one run of png_to_c.py                      *)

NumFrames == 3

\* png: whether anim_frame_i.png is missing, cannot be decoded, or decodes;
\* writable: whether anim_frame_i.c can be opened for writing
FrameConds == [png : {"missing", "corrupt", "ok"}, writable : BOOLEAN]

InitEncBatch ==
  /\ pc = "frames"
  /\ frames \in [0..(NumFrames - 1) -> FrameConds]
  /\ idx = 0
  /\ attempted = {}
  /\ written = [i \in 0..(NumFrames - 1) |-> <<>>]
  /\ img = None /\ var_name = <<>> /\ content = <<>> /\ src = <<>> /\ parsed = NoResult
  /\ dir = None /\ c_files = <<>> /\ success_count = 0 /\ results = <<>>
  /\ outDir = FALSE /\ bins = None /\ exit = None

\* one iteration of: for i in range(3). An exception of convert_png_to_c is
\* not caught: it ends the script.
EncodeNext ==
  /\ pc = "frames"
  /\ idx < NumFrames
  /\ attempted' = attempted \cup {idx}
  /\ idx' = idx + 1
  /\ IF frames[idx].png = "missing"
     THEN pc' = pc /\ written' = written
     ELSE IF frames[idx].png = "corrupt" \/ ~frames[idx].writable
     THEN pc' = "crashed" /\ written' = written
     ELSE /\ pc' = pc
          /\ written' = [written EXCEPT ![idx] = convert_png_to_c(ExampleImage, anim_frame(idx))]
  /\ UNCHANGED <<img, var_name, content, src, parsed, dir, c_files, success_count, results,
                 outDir, bins, exit, frames>>

\* the loop is over
EncodeDone ==
  /\ pc = "frames"
  /\ idx = NumFrames
  /\ pc' = "exited"
  /\ UNCHANGED <<img, var_name, content, src, parsed, dir, c_files, idx, success_count,
                 results, outDir, bins, exit, frames, attempted, written>>

NextEncBatch == EncodeNext \/ EncodeDone

SpecEncBatch == InitEncBatch /\ [][NextEncBatch]_vars

\* the conversion of frame i failed: its PNG is missing, or converting it
\* raised while decoding or writing
FrameFailed(i) ==
  i \in attempted /\ (frames[i].png \in {"missing", "corrupt"} \/ ~frames[i].writable)

\* C9: when the script has ended, every frame after a failed one has been
\* attempted.
C9_LaterFramesAttempted ==
  pc \in {"exited", "crashed"} =>
    \A i \in 0..(NumFrames - 1) : \A j \in 0..(NumFrames - 1) :
      FrameFailed(i) /\ j > i => j \in attempted

====
